---- MODULE Spec2Model ----
(***************************************************************************)
(* Model of coremltools' MIL pass common::dead_code_elimination            *)
(* (passes/defs/cleanup/dead_code_elimination.py).                         *)
(*                                                                         *)
(* A Program is a list of Functions; a Function is a root block; a block   *)
(* is an ordered list of operations plus a list of output variables; an    *)
(* operation has inputs, outputs and nested blocks.  The pass is modelled  *)
(* with an explicit call stack: one frame per active call of               *)
(* _dead_code_elimination_block, one action per step of its loops.         *)
(***************************************************************************)
EXTENDS Integers, Sequences, FiniteSets, TLC

\* Bounds of the explored programs.
NumOps == 3
NumBlocks == 3
MaxWide == 1
MaxRuns == 2

Ops == 1..NumOps
Blocks == 1..NumBlocks
\* Operation o defines variable o; an operation w in 1..MaxWide may define a
\* second output variable, NumOps + w.
VarIds == 1..(NumOps + MaxWide)

VARIABLES
    functions,      \* prog.functions.values(): sequence of root blocks
    blocks,         \* op.blocks: operation -> sequence of nested blocks
    operations,     \* block.operations: block -> sequence of operations
    outputs,        \* block.outputs: block -> sequence of variables
    op_outputs,     \* op.outputs: operation -> sequence of variables
    op_inputs,      \* op.inputs: operation -> sequence of parameter items
    pc,             \* "idle" | "apply"
    fidx,           \* position of apply's loop over prog.functions
    stack,          \* call stack of _dead_code_elimination_block frames
    log,            \* logger.info records, one per removed operation
    runs,           \* number of apply invocations started
    operations0,    \* history: block.operations before the first apply
    visits,         \* history: liveness tests per operation in this apply
    sweeps,         \* history: sweeps per block in this apply
    ret             \* history: <<value>> last returned per block, or <<>>

graph == <<functions, blocks, outputs, op_outputs, op_inputs>>
hist == <<operations0, visits, sweeps, ret>>
vars == <<functions, blocks, operations, outputs, op_outputs, op_inputs,
          pc, fidx, stack, log, runs, operations0, visits, sweeps, ret>>

----------------------------------------------------------------------------
\* Generic helpers.

Range(s) == {s[k] : k \in DOMAIN s}

Min(S) == CHOOSE x \in S : \A y \in S : x <= y

RECURSIVE SetToSeq(_)
SetToSeq(S) == IF S = {} THEN <<>> ELSE <<Min(S)>> \o SetToSeq(S \ {Min(S)})

\* All functions f on S with f[x] \in R[x].
RECURSIVE DepFun(_, _)
DepFun(S, R) ==
    IF S = {} THEN {<<>>}
    ELSE LET x == Min(S)
         IN {(x :> v) @@ f : v \in R[x], f \in DepFun(S \ {x}, R)}

IsSubseq(s, t) ==
    \E f \in [DOMAIN s -> DOMAIN t] :
        /\ \A k \in DOMAIN s : s[k] = t[f[k]]
        /\ \A j, k \in DOMAIN s : j < k => f[j] < f[k]

----------------------------------------------------------------------------
\* Structure of a graph, given its operation lists (opsf) and nested blocks
\* (blks).

\* The operation owning block b, or 0 for a Function's root block.
OwnerOp(blks, b) ==
    IF \E o \in Ops : b \in Range(blks[o])
    THEN CHOOSE o \in Ops : b \in Range(blks[o]) ELSE 0

\* The block whose operation list holds o, or 0 when o is detached.
BlockOf(opsf, o) ==
    IF \E b \in Blocks : o \in Range(opsf[b])
    THEN CHOOSE b \in Blocks : o \in Range(opsf[b]) ELSE 0

PosOf(s, x) == CHOOSE k \in DOMAIN s : s[k] = x

\* Operations whose outputs are visible at position k of block b: earlier
\* operations of b, and what is visible at the owner of b.
RECURSIVE VisibleOps(_, _, _, _)
VisibleOps(opsf, blks, b, k) ==
    LET p == OwnerOp(blks, b)
        pb == IF p = 0 THEN 0 ELSE BlockOf(opsf, p)
    IN {opsf[b][j] : j \in {j \in DOMAIN opsf[b] : j < k}}
         \cup (IF pb = 0 THEN {}
               ELSE VisibleOps(opsf, blks, pb, PosOf(opsf[pb], p)))

OutVars(o) == Range(op_outputs[o])

VarsOfOps(outs, S) == UNION {Range(outs[o]) : o \in S}

----------------------------------------------------------------------------
\* The programs the pass is run on: well-formed graphs (SSA, definition
\* order, lexical visibility), operations numbered in program-text order.

RECURSIVE AncOps(_, _, _)
AncOps(owner, blk, o) ==
    LET p == owner[blk[o]]
    IN IF p = 0 THEN {} ELSE {p} \cup AncOps(owner, blk, p)

RECURSIVE RootOf(_, _, _)
RootOf(owner, blk, b) ==
    IF owner[b] = 0 THEN b ELSE RootOf(owner, blk, blk[owner[b]])

TextOrder(owner, blk) ==
    /\ owner[1] = 0
    /\ \A b \in Blocks : b > 1 => owner[b - 1] <= owner[b]
    /\ \A o \in Ops : owner[blk[o]] < o
    /\ \A p \in Ops :
         LET desc == {q \in Ops : p \in AncOps(owner, blk, q)}
         IN desc = (p + 1)..(p + Cardinality(desc))
    /\ \A o, q \in Ops :
         o < q => /\ RootOf(owner, blk, blk[o]) <= RootOf(owner, blk, blk[q])
                  /\ (owner[blk[o]] = owner[blk[q]] /\ owner[blk[o]] # 0)
                        => blk[o] <= blk[q]

InitFunctions(owner) == SetToSeq({b \in Blocks : owner[b] = 0})
InitBlocks(owner) == [o \in Ops |-> SetToSeq({b \in Blocks : owner[b] = o})]
InitOperations(blk) == [b \in Blocks |-> SetToSeq({o \in Ops : blk[o] = b})]
InitOpOutputs(w) == [o \in Ops |-> IF o = w THEN <<o, NumOps + w>> ELSE <<o>>]

\* op.inputs for a set S of consumed variables: one single-variable
\* parameter, and one tuple parameter holding the rest.
PackInputs(S) ==
    IF S = {} THEN <<>>
    ELSE IF Cardinality(S) = 1
         THEN <<[tuple |-> FALSE, vars |-> SetToSeq(S)]>>
         ELSE <<[tuple |-> FALSE, vars |-> <<Min(S)>>],
                [tuple |-> TRUE, vars |-> SetToSeq(S \ {Min(S)})]>>

Init ==
    \E owner \in [Blocks -> 0..NumOps], blk \in [Ops -> Blocks], w \in 0..MaxWide :
        /\ TextOrder(owner, blk)
        /\ LET opsf == InitOperations(blk)
               blks == InitBlocks(owner)
               oo == InitOpOutputs(w)
               visIn == [o \in Ops |-> SUBSET VarsOfOps(oo,
                            VisibleOps(opsf, blks, blk[o], PosOf(opsf[blk[o]], o)))]
               visOut == [b \in Blocks |-> SUBSET VarsOfOps(oo,
                            VisibleOps(opsf, blks, b, Len(opsf[b]) + 1))]
           IN \E ins \in DepFun(Ops, visIn), outs \in DepFun(Blocks, visOut) :
                /\ functions = InitFunctions(owner)
                /\ blocks = blks
                /\ operations = opsf
                /\ operations0 = opsf
                /\ op_outputs = oo
                /\ op_inputs = [o \in Ops |-> PackInputs(ins[o])]
                /\ outputs = [b \in Blocks |-> SetToSeq(outs[b])]
        /\ pc = "idle"
        /\ fidx = 1
        /\ stack = <<>>
        /\ log = <<>>
        /\ runs = 0
        /\ visits = [o \in Ops |-> 0]
        /\ sweeps = [b \in Blocks |-> 0]
        /\ ret = [b \in Blocks |-> <<>>]

----------------------------------------------------------------------------
\* _dead_code_elimination_block, piece by piece.

\* op.remove_from_block(): op is detached from its block's operation list,
\* the others keep their relative order.
RemoveFromBlock(ops, op) == SelectSeq(ops, LAMBDA x : x # op)

\* Fault: the block's outputs are not marked.
InitialUsedEmpty(b) == {}

\* used_vars = set(); used_vars.update(block.outputs)
InitialUsed(b) == Range(outputs[b])

\* A new call on block b: the reversed iterator starts at the last
\* operation; nothing is marked for removal.
NewFrame(b) ==
    [block |-> b, i |-> Len(operations[b]), pending |-> <<>>,
     used_vars |-> InitialUsed(b), ops_to_remove |-> <<>>,
     phase |-> "sweep", r |-> 1]

\* Fault: the intersection with used_vars is forgotten.
IsDeadNoOutputs(op, used_vars) == OutVars(op) = {}

\* not set(op.outputs).intersection(used_vars)
IsDead(op, used_vars) == OutVars(op) \cap used_vars = {}

\* The variables of op.inputs.items(): a tuple/list parameter contributes
\* all its elements, any other parameter the variable itself.
FlattenInputs(items) ==
    UNION {IF items[k].tuple THEN Range(items[k].vars) ELSE {items[k].vars[1]}
           : k \in DOMAIN items}

\* "mark all op's inputs to used"
MarkInputs(used_vars, op) == used_vars \cup FlattenInputs(op_inputs[op])

\* Fault: the "continue" is missing, a dead op's inputs are marked too.
DeadUsedVarsMarked(used_vars, op) == used_vars \cup FlattenInputs(op_inputs[op])

\* A dead op: ops_to_remove.append(op); continue -- nothing is marked.
DeadUsedVars(used_vars, op) == used_vars

\* for b in op.blocks (live op); none after "continue" (dead op).
BlocksToSweep(op) == blocks[op]
\* Fault: a dead op's nested blocks are swept as well.
DeadBlocksDescend(op) == blocks[op]
DeadBlocks(op) == <<>>

\* The sweep only reads op.inputs and block.operations.
\* Fault: marking consumes the parameter list.
InputsAfterMarkConsumed(items) == <<>>
InputsAfterMark(items) == items
\* Fault: a dead op is detached during the traversal.
AfterDeadVisitDetach(ops, op) == RemoveFromBlock(ops, op)
AfterDeadVisit(ops, op) == ops

\* reversed(block.operations): the position visited after position i.
\* Faults: the iterator skips a position; the iterator does not advance.
NextIndexSkip(i) == i - 2
NextIndexStuck(i) == i
NextIndex(i) == i - 1

\* Fault: the nested sweep's result is dropped.
MergeUsedDropped(used_vars, used_in_block) == used_vars

\* used_vars.update(used_in_block)
MergeUsed(used_vars, used_in_block) == used_vars \cup used_in_block

\* Fault: the compacted list is rebuilt back to front.
CompactReversed(ops, op) ==
    LET s == RemoveFromBlock(ops, op)
    IN [k \in 1..Len(s) |-> s[Len(s) + 1 - k]]

\* for op in ops_to_remove: ... op.remove_from_block()
Compact(ops, op) == RemoveFromBlock(ops, op)

\* logger.info('Removing op "{}" (type: {})'.format(op.name, op.op_type))
LogRecord(op) == [run |-> runs, op |-> op]

Top == stack[Len(stack)]
SetTop(f) == [stack EXCEPT ![Len(stack)] = f]
Sweeping == pc = "apply" /\ stack # <<>>

\* apply is invoked on the program.
Apply ==
    /\ pc = "idle"
    /\ runs < MaxRuns
    /\ pc' = "apply"
    /\ fidx' = 1
    /\ runs' = runs + 1
    /\ visits' = [o \in Ops |-> 0]
    /\ sweeps' = [b \in Blocks |-> 0]
    /\ ret' = [b \in Blocks |-> <<>>]
    /\ UNCHANGED <<graph, operations, stack, log, operations0>>

\* for f in prog.functions.values(): self._dead_code_elimination_block(f)
CallFunction ==
    /\ pc = "apply"
    /\ stack = <<>>
    /\ fidx <= Len(functions)
    /\ stack' = <<NewFrame(functions[fidx])>>
    /\ fidx' = fidx + 1
    /\ sweeps' = [sweeps EXCEPT ![functions[fidx]] = @ + 1]
    /\ UNCHANGED <<graph, operations, pc, log, runs, operations0, visits, ret>>

ApplyDone ==
    /\ pc = "apply"
    /\ stack = <<>>
    /\ fidx > Len(functions)
    /\ pc' = "idle"
    /\ UNCHANGED <<graph, operations, fidx, stack, log, runs, hist>>

\* The loop's next operation has no used output.
VisitDead ==
    /\ Sweeping
    /\ Top.phase = "sweep" /\ Top.pending = <<>> /\ Top.i >= 1
    /\ LET op == operations[Top.block][Top.i]
       IN /\ IsDead(op, Top.used_vars)
          /\ stack' = SetTop([Top EXCEPT
                          !.ops_to_remove = Append(@, op),
                          !.used_vars = DeadUsedVars(@, op),
                          !.pending = DeadBlocks(op),
                          !.i = NextIndex(@)])
          /\ operations' = [operations EXCEPT
                          ![Top.block] = AfterDeadVisit(@, op)]
          /\ visits' = [visits EXCEPT ![op] = @ + 1]
    /\ UNCHANGED <<graph, pc, fidx, log, runs, operations0, sweeps, ret>>

\* The loop's next operation has a used output: its inputs are marked, its
\* nested blocks are to be swept.
VisitLive ==
    /\ Sweeping
    /\ Top.phase = "sweep" /\ Top.pending = <<>> /\ Top.i >= 1
    /\ LET op == operations[Top.block][Top.i]
       IN /\ ~IsDead(op, Top.used_vars)
          /\ stack' = SetTop([Top EXCEPT
                          !.used_vars = MarkInputs(@, op),
                          !.pending = BlocksToSweep(op),
                          !.i = NextIndex(@)])
          /\ op_inputs' = [op_inputs EXCEPT ![op] = InputsAfterMark(@)]
          /\ visits' = [visits EXCEPT ![op] = @ + 1]
    /\ UNCHANGED <<functions, blocks, outputs, op_outputs, operations,
                   pc, fidx, log, runs, operations0, sweeps, ret>>

\* used_in_block = dead_code_elimination._dead_code_elimination_block(b)
CallBlock ==
    /\ Sweeping
    /\ Top.phase = "sweep" /\ Top.pending # <<>>
    /\ LET b == Head(Top.pending)
       IN /\ stack' = Append(SetTop([Top EXCEPT !.pending = Tail(@)]),
                             NewFrame(b))
          /\ sweeps' = [sweeps EXCEPT ![b] = @ + 1]
    /\ UNCHANGED <<graph, operations, pc, fidx, log, runs, operations0,
                   visits, ret>>

\* The reversed iteration is exhausted.
SweepDone ==
    /\ Sweeping
    /\ Top.phase = "sweep" /\ Top.pending = <<>> /\ Top.i < 1
    /\ stack' = SetTop([Top EXCEPT !.phase = "remove", !.r = 1])
    /\ UNCHANGED <<graph, operations, pc, fidx, log, runs, hist>>

\* for op in ops_to_remove: log, then remove.
RemoveOp ==
    /\ Sweeping
    /\ Top.phase = "remove" /\ Top.r <= Len(Top.ops_to_remove)
    /\ LET op == Top.ops_to_remove[Top.r]
       IN /\ log' = Append(log, LogRecord(op))
          /\ operations' = [operations EXCEPT ![Top.block] = Compact(@, op)]
    /\ stack' = SetTop([Top EXCEPT !.r = @ + 1])
    /\ UNCHANGED <<graph, pc, fidx, runs, hist>>

\* return used_vars, to the sweep that called.
ReturnToCaller ==
    /\ Sweeping
    /\ Top.phase = "remove" /\ Top.r > Len(Top.ops_to_remove)
    /\ Len(stack) > 1
    /\ LET caller == stack[Len(stack) - 1]
       IN stack' = [SubSeq(stack, 1, Len(stack) - 1) EXCEPT
                      ![Len(stack) - 1] =
                          [caller EXCEPT !.used_vars = MergeUsed(@, Top.used_vars)]]
    /\ ret' = [ret EXCEPT ![Top.block] = <<Top.used_vars>>]
    /\ UNCHANGED <<graph, operations, pc, fidx, log, runs, operations0,
                   visits, sweeps>>

\* return used_vars, to apply, which drops it.
ReturnToApply ==
    /\ Sweeping
    /\ Top.phase = "remove" /\ Top.r > Len(Top.ops_to_remove)
    /\ Len(stack) = 1
    /\ stack' = <<>>
    /\ ret' = [ret EXCEPT ![Top.block] = <<Top.used_vars>>]
    /\ UNCHANGED <<graph, operations, pc, fidx, log, runs, operations0,
                   visits, sweeps>>

Step ==
    \/ CallFunction
    \/ ApplyDone
    \/ VisitDead
    \/ VisitLive
    \/ CallBlock
    \/ SweepDone
    \/ RemoveOp
    \/ ReturnToCaller
    \/ ReturnToApply

Next == Apply \/ Step

Spec == Init /\ [][Next]_vars

\* A started apply runs to its end: the pass is sequential code.
FairSpec == Spec /\ WF_vars(Step)

----------------------------------------------------------------------------
\* Reachability, stated on a graph and independently of the sweep.

\* The variables operation o consumes.
InputVars(o) == UNION {Range(op_inputs[o][k].vars) : k \in DOMAIN op_inputs[o]}

DefinedIn(opsf, b) == VarsOfOps(op_outputs, Range(opsf[b]))

\* Needed(opsf, b): the least set holding b's declared outputs and, for every
\* operation of b with an output in the set, its inputs and the free
\* variables of its nested blocks.
RECURSIVE Close(_, _, _)
RECURSIVE Needed(_, _)
RECURSIVE FreeVarsOf(_, _)
Close(opsf, b, X) ==
    LET live == {o \in Range(opsf[b]) : OutVars(o) \cap X # {}}
        Y == X \cup UNION {InputVars(o)
                             \cup UNION {FreeVarsOf(opsf, c) : c \in Range(blocks[o])}
                           : o \in live}
    IN IF Y = X THEN X ELSE Close(opsf, b, Y)
Needed(opsf, b) == Close(opsf, b, Range(outputs[b]))
FreeVarsOf(opsf, b) == Needed(opsf, b) \ DefinedIn(opsf, b)

LiveOps(opsf, b) == {o \in Range(opsf[b]) : OutVars(o) \cap Needed(opsf, b) # {}}

\* Blocks reached from the Functions through the operations in S(b).
RECURSIVE BlocksFrom(_, _, _)
BlocksFrom(opsf, onlyLive, R) ==
    LET through(b) == IF onlyLive THEN LiveOps(opsf, b) ELSE Range(opsf[b])
        R2 == R \cup UNION {Range(blocks[o]) : o \in UNION {through(b) : b \in R}}
    IN IF R2 = R THEN R ELSE BlocksFrom(opsf, onlyLive, R2)
PresentBlocks(opsf) == BlocksFrom(opsf, FALSE, Range(functions))
LiveBlocks(opsf) == BlocksFrom(opsf, TRUE, Range(functions))

\* Blocks nested, at any depth, inside operation d (before the pass).
RECURSIVE SubtreeBlocks(_)
SubtreeBlocks(d) ==
    UNION {{c} \cup UNION {SubtreeBlocks(o) : o \in Range(operations0[c])}
           : c \in Range(blocks[d])}
SubtreeOps(d) == UNION {Range(operations0[c]) : c \in SubtreeBlocks(d)}

\* Definition order and lexical visibility of the graph reached from the
\* Functions.
WellFormed(opsf) ==
    \A b \in PresentBlocks(opsf) :
        /\ \A k \in DOMAIN opsf[b] :
             InputVars(opsf[b][k])
                \subseteq VarsOfOps(op_outputs, VisibleOps(opsf, blocks, b, k))
        /\ Range(outputs[b])
                \subseteq VarsOfOps(op_outputs,
                                    VisibleOps(opsf, blocks, b, Len(opsf[b]) + 1))

Done == pc = "idle" /\ runs >= 1
Logged == {log[k].op : k \in DOMAIN log}

----------------------------------------------------------------------------
\* C1 (reachability soundness): after apply, every operation still present in
\* a block reached from a Function has an output that is needed: reachable
\* from the block's declared outputs through the inputs of surviving
\* operations and the captures of their nested blocks.
C1_Soundness ==
    Done => \A b \in PresentBlocks(operations) :
                Range(operations[b]) \subseteq LiveOps(operations, b)

\* Operations were removed from a Function's block and from the nested
\* block of a survivor, and both blocks kept an operation.
C1_Witness ==
    /\ Done
    /\ \E b \in PresentBlocks(operations) :
         /\ OwnerOp(blocks, b) # 0
         /\ operations[b] # <<>>
         /\ operations[b] # operations0[b]

\* C2 (reachability completeness): every operation of a swept block none of
\* whose outputs is needed in the graph before the pass is absent after one
\* apply; this includes the operations that only feed an unused operation.
C2_Completeness ==
    Done => \A b \in LiveBlocks(operations0) :
                \A o \in Range(operations0[b]) \ LiveOps(operations0, b) :
                    o \notin Range(operations[b])

\* Scenario A: t only feeds the unused m; l is kept; t and m are gone after
\* the first apply.
C2_Witness ==
    /\ Done /\ runs = 1
    /\ \E b \in Range(functions) : \E t, m, l \in Range(operations0[b]) :
         /\ OutVars(t) \cap InputVars(m) # {}
         /\ OutVars(t) \cap InputVars(l) = {}
         /\ OutVars(m) \cap InputVars(l) = {}
         /\ t \notin Range(operations[b])
         /\ m \notin Range(operations[b])
         /\ l \in Range(operations[b])

\* C3 (well-formedness preserved): after apply, every input of a surviving
\* operation and every declared output of a block of a Function or of a
\* surviving operation is defined by a surviving operation that is earlier in
\* the same block or visible from an enclosing block.
C3_WellFormedAfter == Done => WellFormed(operations)

\* Scenario B: k is consumed only inside the nested block of the live cf,
\* and k's operation is retained.
C3_Witness ==
    /\ Done
    /\ \E b \in Range(functions) : \E k, cf \in Range(operations[b]) :
         /\ \A o \in Range(operations0[b]) : OutVars(k) \cap InputVars(o) = {}
         /\ OutVars(k) \cap Range(outputs[b]) = {}
         /\ \E c \in Range(blocks[cf]) : \E u \in Range(operations[c]) :
              OutVars(k) \cap InputVars(u) # {}

\* The value returned by the sweep of block b, as the graph determines it:
\* b's declared outputs, the inputs of b's surviving operations and the
\* values returned for their nested blocks.
RECURSIVE Accumulated(_)
Accumulated(b) ==
    Range(outputs[b])
      \cup UNION {InputVars(o) \cup UNION {Accumulated(c) : c \in Range(blocks[o])}
                  : o \in Range(operations[b])}

\* C4, as claimed: the returned value holds only variables the block consumes
\* and does not define, none defined by an operation of the block itself.
C4_ReturnsOnlyFreeVars ==
    \A b \in Blocks :
        ret[b] # <<>> => ret[b][1] \cap DefinedIn(operations0, b) = {}

\* C4, amended: the returned value is the accumulated liveness set (declared
\* outputs, inputs of surviving operations, values returned by their nested
\* sweeps); it contains every free variable of the swept block, may contain
\* variables the block's own operations define, and is empty for a block
\* with no operations and no outputs.
C4_ReturnsUsedVars ==
    \A b \in Blocks :
        ret[b] # <<>> =>
            /\ ret[b][1] = Accumulated(b)
            /\ FreeVarsOf(operations, b) \subseteq ret[b][1]
            /\ (operations0[b] = <<>> /\ outputs[b] = <<>>) => ret[b][1] = {}

\* A nested sweep returned a captured variable together with a variable
\* defined in the nested block, and the sweep of an empty Function returned
\* the empty set.
C4_Witness ==
    /\ \E b \in Blocks :
         /\ ret[b] # <<>>
         /\ OwnerOp(blocks, b) # 0
         /\ ret[b][1] \cap DefinedIn(operations, b) # {}
         /\ ret[b][1] \ DefinedIn(operations, b) # {}
    /\ \E b \in Range(functions) :
         /\ ret[b] = <<{}>>
         /\ operations0[b] = <<>> /\ outputs[b] = <<>>

\* C5 (order preservation): the operation list of every block is at all
\* times a subsequence of its list before the pass.
C5_OrderPreserved ==
    \A b \in Blocks : IsSubseq(operations[b], operations0[b])

\* The middle one of three operations was removed.
C5_Witness ==
    /\ Done
    /\ \E b \in Blocks :
         /\ Len(operations0[b]) = 3
         /\ operations[b] = <<operations0[b][1], operations0[b][3]>>

\* C6 (idempotence): an apply that follows an apply removes no operation,
\* logs nothing and leaves the graph as it was.
C6_Idempotent ==
    [][runs >= 2 => /\ operations' = operations
                    /\ log' = log
                    /\ graph' = graph]_vars

\* The second apply has finished after a first one that removed operations,
\* whose nested sweeps it repeated.
C6_Witness ==
    /\ pc = "idle" /\ runs = 2
    /\ log # <<>>
    /\ \E b \in Blocks : OwnerOp(blocks, b) # 0 /\ sweeps[b] = 1

\* Operations judged dead so far: logged, or waiting in an ops_to_remove.
MarkedDead ==
    Logged \cup UNION {Range(stack[k].ops_to_remove) : k \in DOMAIN stack}

C7_SubtreeUntouched ==
    \A d \in MarkedDead :
        /\ Cardinality({k \in DOMAIN log : log[k].op = d}) <= 1
        /\ SubtreeOps(d) \cap Logged = {}
        /\ \A o \in SubtreeOps(d) : visits[o] = 0
        /\ \A c \in SubtreeBlocks(d) :
             /\ sweeps[c] = 0
             /\ operations[c] = operations0[c]
             /\ \A k \in DOMAIN stack : stack[k].block # c

\* The step that judges an operation dead.
JudgesDead ==
    /\ stack # <<>> /\ stack' # <<>>
    /\ Len(stack') = Len(stack)
    /\ Len(stack'[Len(stack')].ops_to_remove) > Len(Top.ops_to_remove)

\* C7 (a dead operation is never descended into): the step judging an
\* operation dead marks no input and schedules no nested sweep; no block
\* nested inside a dead operation is ever swept or modified, none of its
\* operations is tested or logged, and the dead operation is logged once.
C7_DeadNotDescended ==
    /\ []C7_SubtreeUntouched
    /\ [][JudgesDead => /\ stack'[Len(stack')].used_vars = Top.used_vars
                        /\ stack'[Len(stack')].pending = <<>>]_vars

\* Scenario C: a removed operation with inputs owns a nested block that
\* still holds an operation none of whose outputs is needed.
C7_Witness ==
    /\ Done
    /\ \E d \in Logged :
         /\ InputVars(d) # {}
         /\ \E c \in SubtreeBlocks(d) :
              Range(operations[c]) \ LiveOps(operations, c) # {}

C8_VisitedOnce ==
    /\ \A o \in Ops : visits[o] <= 1
    /\ \A b \in Blocks : sweeps[b] <= 1

\* C8 (termination, single visits): every apply ends, and within one apply
\* an operation is tested at most once and a block swept at most once.
C8_Terminates ==
    /\ []C8_VisitedOnce
    /\ (pc = "apply") ~> (pc = "idle")

\* An apply ended having tested every operation and swept every block, two
\* of them nested.
C8_Witness ==
    /\ Done
    /\ \A o \in Ops : visits[o] = 1
    /\ \A b \in Blocks : sweeps[b] = 1
    /\ Len(functions) = 1

NestedDone(c) == ret[c] # <<>> /\ \A k \in DOMAIN stack : stack[k].block # c

\* C9 (mark, then compact; depth first): an operation is detached from a
\* block only by that block's sweep after its traversal has ended; and when
\* an operation of a block is tested or detached, the sweeps of the nested
\* blocks of the live operations visited before it have returned.
C9_MarkThenCompact ==
    [][/\ \A b \in Blocks :
            operations'[b] # operations[b] =>
                /\ stack # <<>>
                /\ Top.block = b /\ Top.phase = "remove"
                /\ Top.i < 1 /\ Top.pending = <<>>
                /\ \A q \in Range(operations[b]) \ Range(Top.ops_to_remove) :
                       \A c \in Range(blocks[q]) : NestedDone(c)
       /\ \A o \in Ops :
            visits'[o] > visits[o] =>
                LET ops == operations[Top.block]
                IN /\ o \in Range(ops)
                   /\ \A j \in DOMAIN ops :
                        (j > PosOf(ops, o) /\ ops[j] \notin Range(Top.ops_to_remove))
                            => \A c \in Range(blocks[ops[j]]) : NestedDone(c)]_vars

\* A block is being compacted after the nested sweep of one of its live
\* operations, which itself removed operations.
C9_Witness ==
    /\ stack # <<>>
    /\ Top.phase = "remove" /\ Top.r > 1
    /\ \E q \in Range(operations[Top.block]) : \E c \in Range(blocks[q]) :
         ret[c] # <<>> /\ operations[c] # operations0[c]

\* The Function whose graph holds block b.
RECURSIVE FunctionOf(_)
FunctionOf(b) ==
    IF OwnerOp(blocks, b) = 0 THEN b
    ELSE FunctionOf(BlockOf(operations0, OwnerOp(blocks, b)))

\* C10 (the pass only removes): no step adds an operation to a block or
\* changes a block's declared outputs or an operation's inputs, outputs or
\* nested blocks, and a step changes only blocks of the Function being swept.
C10_OnlyRemoves ==
    [][/\ graph' = graph
       /\ \A b \in Blocks :
            /\ Range(operations'[b]) \subseteq Range(operations[b])
            /\ Len(operations'[b]) <= Len(operations[b])
            /\ operations'[b] # operations[b] =>
                 stack # <<>> /\ FunctionOf(b) = stack[1].block]_vars

\* Two Functions were swept and each lost an operation.
C10_Witness ==
    /\ Done
    /\ \E b1, b2 \in Range(functions) :
         /\ b1 # b2
         /\ operations[b1] # operations0[b1]
         /\ operations[b2] # operations0[b2]

====
